---------------------------- MODULE Spec2Model ----------------------------
(***************************************************************************)
(* Model of the Habr article parser (src/habr_parser/habr_parser.py).     *)
(*                                                                         *)
(* Python values are represented as follows.                               *)
(*   - None is the record None; a value that may be None is a record.      *)
(*   - A text that a regular expression scans is a sequence of one-glyph   *)
(*     strings; the Cyrillic glyphs are written "K_cyr", "k_cyr", "M_cyr", *)
(*     "m_cyr" and the Latin ones "K", "k", "M", "m".                      *)
(*   - The result of soup.select(sel) is the sequence of the matched       *)
(*     elements in document order; select_one(sel) is its first element,   *)
(*     so a page field is the sequence (empty: no element) of the texts of *)
(*     the elements its selector matches.                                  *)
(*   - A URL is a record [host, seg, id, tail]; an href with host "" is    *)
(*     relative.                                                           *)
(***************************************************************************)
EXTENDS Integers, Sequences, FiniteSets, TLC

VARIABLES
    all_posts_data, \* HabrParser.all_posts_data
    pc,             \* position of the program
    runs,           \* number of parse_search_page calls made so far
    max_posts,      \* argument of the running parse_search_page call
    discovered,     \* result of extract_search_results in this call
    post_links,     \* local post_links of parse_search_page after the limit
    i,              \* loop index of parse_search_page (1-based, as enumerate)
    post_data,      \* local post_data of parse_search_page
    url,            \* argument of the running get_page_content call
    attempt,        \* loop variable of get_page_content
    slept,          \* the time.sleep durations of the running call, in order
    outcomes,       \* outcome of each session.get of the running call
    content,        \* return value of get_page_content
    caller,         \* which call site of get_page_content is running
    fetch_log,      \* the get_page_content calls of this run, in order
    targets_log,    \* per processed target: url, fetch result, extracted title
    base_len,       \* Len(all_posts_data) when this run started
    arg,            \* argument of the function applied on its own
    ret             \* its return value

vars == << all_posts_data, pc, runs, max_posts, discovered, post_links, i,
           post_data, url, attempt, slept, outcomes, content, caller,
           fetch_log, targets_log, base_len, arg, ret >>

runVars == << all_posts_data, pc, runs, max_posts, discovered, post_links, i,
              post_data, url, attempt, slept, outcomes, content, caller,
              fetch_log, targets_log, base_len >>

None == [none |-> TRUE]

Pending == [pending |-> TRUE]

Returned(v) == [value |-> v]

---------------------------------------------------------------------------
(* Generic sequence helpers.                                               *)

Range(s) == { s[k] : k \in 1..Len(s) }

SeqsUpTo(S, n) == UNION { [1..k -> S] : k \in 0..n }

Contains(s, x) == \E k \in 1..Len(s) : s[k] = x

Min(a, b) == IF a < b THEN a ELSE b

Max(a, b) == IF a > b THEN a ELSE b

NoDup(s) == \A a, b \in 1..Len(s) : s[a] = s[b] => a = b

RECURSIVE Pow(_, _)
Pow(b, e) == IF e = 0 THEN 1 ELSE b * Pow(b, e - 1)

\* Python's s[:n] for a list s and an integer n (negative n counts from the end)
SliceTo(s, n) ==
    IF n >= 0 THEN SubSeq(s, 1, Min(n, Len(s)))
    ELSE SubSeq(s, 1, Max(Len(s) + n, 0))

---------------------------------------------------------------------------
(* Texts scanned by regular expressions.                                   *)

Digits == {"0", "1", "2", "3", "4", "5", "6", "7", "8", "9"}

DigitValue(c) ==
    CASE c = "0" -> 0 [] c = "1" -> 1 [] c = "2" -> 2 [] c = "3" -> 3
      [] c = "4" -> 4 [] c = "5" -> 5 [] c = "6" -> 6 [] c = "7" -> 7
      [] c = "8" -> 8 [] c = "9" -> 9

\* int() of a run of digits
RECURSIVE DigitsValue(_)
DigitsValue(ds) ==
    IF ds = << >> THEN 0
    ELSE 10 * DigitsValue(SubSeq(ds, 1, Len(ds) - 1)) + DigitValue(ds[Len(ds)])

\* index of the first digit of s at or after position k, 0 when there is none
RECURSIVE FirstDigit(_, _)
FirstDigit(s, k) ==
    IF k > Len(s) THEN 0
    ELSE IF s[k] \in Digits THEN k
    ELSE FirstDigit(s, k + 1)

\* \d+ is greedy: index of the last digit of the run of digits starting at k
RECURSIVE DigitsEnd(_, _)
DigitsEnd(s, k) ==
    IF k + 1 <= Len(s) /\ s[k + 1] \in Digits THEN DigitsEnd(s, k + 1) ELSE k

\* characters \s matches (the ASCII space is removed before the search)
Whitespace == {"\t", "\n"}

RECURSIVE SkipWhitespace(_, _)
SkipWhitespace(s, k) ==
    IF k <= Len(s) /\ s[k] \in Whitespace THEN SkipWhitespace(s, k + 1) ELSE k

\* str.lower() on one glyph
Lower(c) ==
    CASE c = "K" -> "k" [] c = "M" -> "m"
      [] c = "K_cyr" -> "k_cyr" [] c = "M_cyr" -> "m_cyr"
      [] OTHER -> c

\* text.replace(',', '.').replace(' ', '')
NormalizeNumberText(text) ==
    SelectSeq([k \in 1..Len(text) |-> IF text[k] = "," THEN "." ELSE text[k]],
              LAMBDA c : c # " ")

\* the character class [KkМм] of the pattern: Latin K, k and Cyrillic М, м
SuffixClass == {"K", "k", "M_cyr", "m_cyr"}

\* re.search(r'(\d+(?:\.\d+)?)\s*([KkМм]?)', s): None, or the groups of the
\* leftmost match: the digits of the integer part, those of the fraction
\* (empty without one) and the suffix ("" without one)
NumberMatch(s) ==
    LET b == FirstDigit(s, 1) IN
    IF b = 0 THEN None
    ELSE
      LET e1 == DigitsEnd(s, b)
          hasFrac == e1 + 2 <= Len(s) /\ s[e1 + 1] = "." /\ s[e1 + 2] \in Digits
          e2 == IF hasFrac THEN DigitsEnd(s, e1 + 2) ELSE e1
          w == SkipWhitespace(s, e2 + 1)
      IN [ int |-> SubSeq(s, b, e1),
           frac |-> IF hasFrac THEN SubSeq(s, e1 + 2, e2) ELSE << >>,
           suffix |-> IF w <= Len(s) /\ s[w] \in SuffixClass THEN s[w] ELSE "" ]

\* Mantissas (digits with the point dropped, number of fraction digits) and
\* multipliers whose product as IEEE doubles lies just below the exact
\* product, so that int() yields one less: 2.01 * 1000 = 2009.9999999999998.
\* Complete for mantissas of at most four characters over the digits 0 1 2 5.
InexactProducts ==
    { <<201, 2, 1000>>, <<201, 2, 1000000>>, <<205, 2, 1000000>> }

\* int(float(mantissa) * mult)
TruncatedProduct(m, mult) ==
    LET n == DigitsValue(m.int \o m.frac)
        w == Len(m.frac)
        exact == (n * mult) \div Pow(10, w)
    IN IF <<n, w, mult>> \in InexactProducts THEN exact - 1 ELSE exact

parse_number_with_suffix(text) ==
    IF text = << >> THEN 0
    ELSE
      LET match == NumberMatch(NormalizeNumberText(text)) IN
      IF match = None THEN 0
      ELSE
        LET suffix == Lower(match.suffix) IN
        IF suffix \in {"k", "k_cyr"} THEN TruncatedProduct(match, 1000)
        ELSE IF suffix \in {"m", "m_cyr"} THEN TruncatedProduct(match, 1000000)
        ELSE TruncatedProduct(match, 1)

\* re.search(r'[+-]?(\d+)', text) followed by int(match.group(1)): None, or
\* the value of the first run of digits (the sign is outside the group)
RatingMatch(text) ==
    LET b == FirstDigit(text, 1) IN
    IF b = 0 THEN None
    ELSE Returned(DigitsValue(SubSeq(text, b, DigitsEnd(text, b))))

---------------------------------------------------------------------------
(* extract_search_results: the links of a listing page.                    *)

base_url == "https://habr.com"

\* urljoin(self.base_url, href): a relative href gets the base's host
urljoin(base, href) == IF href.host = "" THEN [href EXCEPT !.host = base] ELSE href

\* the selectors of extract_search_results, in the order of the list
selectors ==
    << "h2.tm-title a", "h1.tm-title a", "a[href*=/articles/]", "a[href*=/posts/]" >>

\* whether CSS selector sel selects the <a> element el of a listing page
Selects(sel, el) ==
    CASE sel = "h2.tm-title a" -> el.cls = "h2"
      [] sel = "h1.tm-title a" -> el.cls = "h1"
      [] sel = "a[href*=/articles/]" -> el.href # None /\ el.href.seg = "articles"
      [] sel = "a[href*=/posts/]" -> el.href # None /\ el.href.seg = "posts"

\* soup.select(selector): the selected elements in document order
select(soup, sel) == SelectSeq(soup.links, LAMBDA el : Selects(sel, el))

\* CollectLinks inserting each new link at the front of the list
RECURSIVE CollectLinks_prepend(_, _)
CollectLinks_prepend(post_links_acc, links) ==
    IF links = << >> THEN post_links_acc
    ELSE
      LET href == Head(links).href IN
      IF href = None THEN CollectLinks_prepend(post_links_acc, Tail(links))
      ELSE
        LET full_url == urljoin(base_url, href) IN
        IF Contains(post_links_acc, full_url)
        THEN CollectLinks_prepend(post_links_acc, Tail(links))
        ELSE CollectLinks_prepend(<< full_url >> \o post_links_acc, Tail(links))

\* the inner loop over the links of one selector
RECURSIVE CollectLinks(_, _)
CollectLinks(post_links_acc, links) ==
    IF links = << >> THEN post_links_acc
    ELSE
      LET href == Head(links).href IN
      IF href = None THEN CollectLinks(post_links_acc, Tail(links))
      ELSE
        LET full_url == urljoin(base_url, href) IN
        IF Contains(post_links_acc, full_url)
        THEN CollectLinks(post_links_acc, Tail(links))
        ELSE CollectLinks(Append(post_links_acc, full_url), Tail(links))

\* the outer loop over the selectors
RECURSIVE CollectSelectors(_, _, _)
CollectSelectors(post_links_acc, soup, sels) ==
    IF sels = << >> THEN post_links_acc
    ELSE CollectSelectors(CollectLinks(post_links_acc, select(soup, Head(sels))),
                          soup, Tail(sels))

\* AllowPattern without the test of the path segments
AllowPattern_any(link) == TRUE

\* '/articles/' in link or '/posts/' in link
AllowPattern(link) == link.seg = "articles" \/ link.seg = "posts"

\* the loop that builds unique_links
RECURSIVE FilterUnique(_, _)
FilterUnique(unique_links, links) ==
    IF links = << >> THEN unique_links
    ELSE IF AllowPattern(Head(links)) /\ ~Contains(unique_links, Head(links))
    THEN FilterUnique(Append(unique_links, Head(links)), Tail(links))
    ELSE FilterUnique(unique_links, Tail(links))

\* `not content`: None and the empty text are falsy
Falsy(page) == page = None \/ page.kind = "empty"

\* extract_search_results, given what get_page_content(search_url) returned
extract_search_results(page) ==
    IF Falsy(page) THEN << >>
    ELSE FilterUnique(<< >>, CollectSelectors(<< >>, page, selectors))

---------------------------------------------------------------------------
(* extract_post_data: the record of one post page.                         *)

\* the post_data dict as initialised before the try block
DefaultPostData(post_url) ==
    [ url |-> post_url, title |-> "", author |-> "",
      author_info |-> [profile_url |-> << >>, karma |-> << >>],
      content |-> "", content_html |-> "",
      views_count |-> 0, reactions_count |-> 0, comments_count |-> 0,
      comments |-> << >>, publication_date |-> "", publication_time |-> "",
      tags |-> << >>, hubs |-> << >>, reading_time |-> "", difficulty |-> "",
      company |-> "" ]

\* the fields in the order in which the try block extracts them
FieldOrder ==
    << "title", "author", "karma", "content", "views_count", "reactions_count",
       "comments_count", "publication_date", "tags", "hubs", "reading_time",
       "difficulty", "company" >>

\* the values of the keys of post_data that the extraction of field f assigns
FieldValue(pd, f) ==
    CASE f = "title" -> << pd.title >>
      [] f = "author" -> << pd.author, pd.author_info.profile_url >>
      [] f = "karma" -> << pd.author_info.karma >>
      [] f = "content" -> << pd.content, pd.content_html >>
      [] f = "views_count" -> << pd.views_count >>
      [] f = "reactions_count" -> << pd.reactions_count >>
      [] f = "comments_count" -> << pd.comments_count >>
      [] f = "publication_date" -> << pd.publication_date, pd.publication_time >>
      [] f = "tags" -> << pd.tags >>
      [] f = "hubs" -> << pd.hubs >>
      [] f = "reading_time" -> << pd.reading_time >>
      [] f = "difficulty" -> << pd.difficulty >>
      [] f = "company" -> << pd.company >>

\* datetime.fromisoformat(s.replace('Z', '+00:00')).strftime('%Y-%m-%d %H:%M:%S'),
\* None when fromisoformat raises
FormatIso(datetime_str) ==
    CASE datetime_str = "2025-10-23T10:00:00Z" -> Returned("2025-10-23 10:00:00")
      [] datetime_str = "2025-10-23T10:00:00+00:00" -> Returned("2025-10-23 10:00:00")
      [] OTHER -> None

\* the loops over tag and hub elements: non-empty texts, first occurrence kept
RECURSIVE CollectTexts(_, _)
CollectTexts(acc, texts) ==
    IF texts = << >> THEN acc
    ELSE IF Head(texts) # "" /\ ~Contains(acc, Head(texts))
    THEN CollectTexts(Append(acc, Head(texts)), Tail(texts))
    ELSE CollectTexts(acc, Tail(texts))

\* the statements of the try block that extract field f from the page
ExtractField(pd, soup, f) ==
    CASE f = "title" ->
           IF soup.title # << >> THEN [pd EXCEPT !.title = Head(soup.title)] ELSE pd
      [] f = "author" ->
           IF soup.author # << >>
           THEN [pd EXCEPT !.author = Head(soup.author).text,
                           !.author_info.profile_url =
                               << urljoin(base_url, Head(soup.author).href) >>]
           ELSE pd
      [] f = "karma" ->
           IF soup.karma # << >>
           THEN [pd EXCEPT !.author_info.karma = << Head(soup.karma) >>]
           ELSE pd
      [] f = "content" ->
           IF soup.body # << >>
           THEN [pd EXCEPT !.content = Head(soup.body).text,
                           !.content_html = Head(soup.body).html]
           ELSE pd
      [] f = "views_count" ->
           IF soup.views # << >>
           THEN [pd EXCEPT !.views_count = parse_number_with_suffix(Head(soup.views))]
           ELSE pd
      [] f = "reactions_count" ->
           IF soup.rating # << >> /\ RatingMatch(Head(soup.rating)) # None
           THEN [pd EXCEPT !.reactions_count = RatingMatch(Head(soup.rating)).value]
           ELSE pd
      [] f = "comments_count" ->
           IF soup.comments # << >> /\ RatingMatch(Head(soup.comments)) # None
           THEN [pd EXCEPT !.comments_count = RatingMatch(Head(soup.comments)).value]
           ELSE pd
      [] f = "publication_date" ->
           IF soup.time # << >> /\ Head(soup.time).datetime # ""
           THEN LET t == Head(soup.time) IN
                [pd EXCEPT !.publication_date = t.datetime,
                           !.publication_time =
                               IF FormatIso(t.datetime) # None
                               THEN FormatIso(t.datetime).value
                               ELSE t.text]
           ELSE pd
      [] f = "tags" -> [pd EXCEPT !.tags = CollectTexts(pd.tags, soup.tags)]
      [] f = "hubs" -> [pd EXCEPT !.hubs = CollectTexts(pd.hubs, soup.hubs)]
      [] f = "reading_time" ->
           IF soup.reading_time # << >>
           THEN [pd EXCEPT !.reading_time = Head(soup.reading_time)] ELSE pd
      [] f = "difficulty" ->
           IF soup.difficulty # << >>
           THEN [pd EXCEPT !.difficulty = Head(soup.difficulty)] ELSE pd
      [] f = "company" ->
           IF soup.company # << >>
           THEN [pd EXCEPT !.company = Head(soup.company)] ELSE pd

\* ExtractFields with a handler around each field: a field whose extraction
\* raises is skipped and the later ones are extracted
RECURSIVE ExtractFields_per_field(_, _, _)
ExtractFields_per_field(pd, soup, fields) ==
    IF fields = << >> THEN pd
    ELSE IF soup.raises = Head(fields)
    THEN ExtractFields_per_field(pd, soup, Tail(fields))
    ELSE ExtractFields_per_field(ExtractField(pd, soup, Head(fields)), soup,
                                 Tail(fields))

\* The try block: one handler around all the fields.  soup.raises names the
\* field whose extraction raises an unexpected error ("" when none does);
\* the handler prints and control falls through to `return post_data`.
RECURSIVE ExtractFields(_, _, _)
ExtractFields(pd, soup, fields) ==
    IF fields = << >> THEN pd
    ELSE IF soup.raises = Head(fields) THEN pd
    ELSE ExtractFields(ExtractField(pd, soup, Head(fields)), soup, Tail(fields))

\* extract_post_data, given what get_page_content(post_url) returned
extract_post_data(post_url, page) ==
    IF Falsy(page) THEN None
    ELSE ExtractFields(DefaultPostData(post_url), page, FieldOrder)

---------------------------------------------------------------------------
(* extract_comments: the comments of one post.                             *)

\* the comments_url of extract_comments
CommentsUrl(post_url) ==
    IF post_url.tail = "comments" THEN post_url
    ELSE [post_url EXCEPT !.tail = "comments"]

\* the body of the loop up to the admission test: the comment_data of a node
CommentData(node) ==
    [ author |-> IF node.author # << >> THEN Head(node.author) ELSE "",
      content |-> IF node.content # << >> THEN Head(node.content) ELSE "",
      timestamp |-> IF node.time # << >> THEN Head(node.time) ELSE "",
      rating |-> IF node.rating # << >> /\ RatingMatch(Head(node.rating)) # None
                 THEN RatingMatch(Head(node.rating)).value ELSE 0,
      level |-> 0 ]

\* if comment_data['content'] or comment_data['author']
CommentAdmitted(cd) == cd.content # "" \/ cd.author # ""

\* ScanComments with a handler around each node: a node whose scan raises is
\* skipped and the later ones are scanned
RECURSIVE ScanComments_per_node(_, _)
ScanComments_per_node(comments, nodes) ==
    IF nodes = << >> THEN comments
    ELSE IF Head(nodes).fails THEN ScanComments_per_node(comments, Tail(nodes))
    ELSE LET cd == CommentData(Head(nodes)) IN
         ScanComments_per_node(
             IF CommentAdmitted(cd) THEN Append(comments, cd) ELSE comments,
             Tail(nodes))

\* The try block: one handler around the whole loop.  A node with fails set
\* raises while it is scanned; the handler prints and control falls through
\* to `return comments`.
RECURSIVE ScanComments(_, _)
ScanComments(comments, nodes) ==
    IF nodes = << >> THEN comments
    ELSE IF Head(nodes).fails THEN comments
    ELSE LET cd == CommentData(Head(nodes)) IN
         ScanComments(IF CommentAdmitted(cd) THEN Append(comments, cd) ELSE comments,
                      Tail(nodes))

\* extract_comments, given what get_page_content(comments_url) returned
extract_comments(page) ==
    IF Falsy(page) THEN << >> ELSE ScanComments(<< >>, page.nodes)

---------------------------------------------------------------------------
(* Bounds and the inputs drawn within them.                                *)

\* parse_search_page calls made on one parser
MaxRuns == 2

\* <a> elements of a listing page
MaxLinks == 3

\* largest max_posts passed to parse_search_page
MaxLimit == 2

\* glyphs of a text given to parse_number_with_suffix
MaxTextLen == 4

\* comment nodes of a comments page
MaxNodes == 3

Href(host, seg, id) == [host |-> host, seg |-> seg, id |-> id, tail |-> ""]

search_url == [host |-> base_url, seg |-> "search", id |-> 0, tail |-> ""]

EmptyText == [kind |-> "empty"]

Listing(links) == [kind |-> "listing", links |-> links]

\* listing pages served during a run: links to three posts and a profile link
RunElements ==
    { [cls |-> "plain", href |-> Href("", "articles", id)] : id \in {1, 2, 3} }
      \cup { [cls |-> "plain", href |-> Href("", "users", 1)] }

RunListings == { Listing(l) : l \in SeqsUpTo(RunElements, MaxLinks) } \cup {EmptyText}

\* a post page on which no selector matches and no extraction raises
BlankPost ==
    [ kind |-> "post", title |-> << >>, author |-> << >>, karma |-> << >>,
      body |-> << >>, views |-> << >>, rating |-> << >>, comments |-> << >>,
      time |-> << >>, tags |-> << >>, hubs |-> << >>, reading_time |-> << >>,
      difficulty |-> << >>, company |-> << >>, raises |-> "" ]

Body == [text |-> "text", html |-> "<div>text</div>"]

\* post pages served during a run: with a title, without one, and empty
RunPostPages ==
    { [BlankPost EXCEPT !.title = << "Title" >>, !.body = << Body >>],
      [BlankPost EXCEPT !.body = << Body >>],
      EmptyText }

Node(author, text, rating) ==
    [ author |-> author, content |-> text, time |-> << >>, rating |-> rating,
      fails |-> FALSE ]

FailingNode ==
    [ author |-> << >>, content |-> << >>, time |-> << >>, rating |-> << >>,
      fails |-> TRUE ]

CommentsPage(nodes) == [kind |-> "comments", nodes |-> nodes]

\* comments pages served during a run: one without comments, and empty
RunCommentPages ==
    { CommentsPage(<< >>), EmptyText }

\* what session.get can return at each call site of get_page_content
PagesAt(site) ==
    CASE site = "listing" -> RunListings
      [] site = "post" -> RunPostPages
      [] site = "comments" -> RunCommentPages

\* the values of the max_posts argument; an integer n is IntArg(n)
IntArg(n) == [int |-> n]

MaxPostsValues == {None} \cup { IntArg(n) : n \in 0..MaxLimit }

---------------------------------------------------------------------------
(* get_page_content, one step per session.get and per time.sleep.          *)

max_retries == 3

\* BackoffDelay with a linear delay, 2 * attempt, in place of 2 ** attempt
BackoffDelay_linear(k) == 2 * k

\* the argument of time.sleep in get_page_content
BackoffDelay(k) == Pow(2, k)

\* whether a failed attempt is followed by a sleep and another attempt
RetryAfter(k) == k < max_retries - 1

\* session.get returns and raise_for_status passes: return response.text
GetOk ==
    /\ pc = "get"
    /\ \E page \in PagesAt(caller) : content' = page
    /\ outcomes' = Append(outcomes, "ok")
    /\ pc' = "got"
    /\ UNCHANGED << all_posts_data, runs, max_posts, discovered, post_links, i,
                    post_data, url, attempt, slept, caller, fetch_log,
                    targets_log, base_len, arg, ret >>

\* session.get or raise_for_status raises requests.RequestException
GetFail ==
    /\ pc = "get"
    /\ outcomes' = Append(outcomes, "error")
    /\ IF RetryAfter(attempt)
       THEN pc' = "sleep" /\ content' = content
       ELSE pc' = "got" /\ content' = None
    /\ UNCHANGED << all_posts_data, runs, max_posts, discovered, post_links, i,
                    post_data, url, attempt, slept, caller, fetch_log,
                    targets_log, base_len, arg, ret >>

\* time.sleep(2 ** attempt), then the next iteration of the loop
Sleep ==
    /\ pc = "sleep"
    /\ slept' = Append(slept, BackoffDelay(attempt))
    /\ attempt' = attempt + 1
    /\ pc' = "get"
    /\ UNCHANGED << all_posts_data, runs, max_posts, discovered, post_links, i,
                    post_data, url, outcomes, content, caller, fetch_log,
                    targets_log, base_len, arg, ret >>

\* entry of get_page_content(u) from call site `site`
BeginFetch(u, site) ==
    /\ url' = u
    /\ caller' = site
    /\ attempt' = 0
    /\ slept' = << >>
    /\ outcomes' = << >>
    /\ content' = Pending
    /\ pc' = "get"

---------------------------------------------------------------------------
(* parse_search_page.                                                      *)

\* if max_posts: post_links = post_links[:max_posts]
Truncate(links, limit) ==
    IF limit # None /\ limit.int # 0 THEN SliceTo(links, limit.int) ELSE links

\* Admit without the test of the title
Admit_untitled(pd) == pd # None

\* if post_data and post_data['title']
Admit(pd) == pd # None /\ pd.title # ""

\* parse_search_page(search_url, max_posts) is called: up to the first
\* session.get of extract_search_results
ParseSearchPage ==
    /\ pc \in {"idle", "done"}
    /\ runs < MaxRuns
    /\ runs' = runs + 1
    /\ \E limit \in MaxPostsValues : max_posts' = limit
    /\ discovered' = << >>
    /\ post_links' = << >>
    /\ i' = 0
    /\ post_data' = None
    /\ targets_log' = << >>
    /\ base_len' = Len(all_posts_data)
    /\ fetch_log' = << [site |-> "listing", url |-> search_url] >>
    /\ BeginFetch(search_url, "listing")
    /\ UNCHANGED << all_posts_data, arg, ret >>

\* NextTarget advancing by two: every other target is skipped
NextTarget_skip(links, k) ==
    IF k + 1 < Len(links)
    THEN /\ i' = k + 2
         /\ fetch_log' = Append(fetch_log, [site |-> "post", url |-> links[k + 2]])
         /\ BeginFetch(links[k + 2], "post")
    ELSE /\ pc' = "done"
         /\ UNCHANGED << i, fetch_log, url, caller, attempt, slept, outcomes, content >>

\* the end of one loop iteration (time.sleep(1) included): the next target's
\* extract_post_data up to its first session.get, or the return
NextTarget(links, k) ==
    IF k < Len(links)
    THEN /\ i' = k + 1
         /\ fetch_log' = Append(fetch_log, [site |-> "post", url |-> links[k + 1]])
         /\ BeginFetch(links[k + 1], "post")
    ELSE /\ pc' = "done"
         /\ UNCHANGED << i, fetch_log, url, caller, attempt, slept, outcomes, content >>

\* get_page_content(search_url) returned: the rest of extract_search_results,
\* the empty-result return, the limit, and the first loop iteration up to
\* its first session.get
AfterListing ==
    /\ pc = "got" /\ caller = "listing"
    /\ discovered' = extract_search_results(content)
    /\ post_links' = IF discovered' = << >> THEN << >>
                     ELSE Truncate(discovered', max_posts)
    /\ NextTarget(post_links', 0)
    /\ UNCHANGED << all_posts_data, runs, max_posts, post_data, targets_log,
                    base_len, arg, ret >>

\* get_page_content(post_url) returned: the rest of extract_post_data, the
\* admission test, and either extract_comments up to its first session.get
\* or the rejection and the end of the iteration
AfterPost ==
    /\ pc = "got" /\ caller = "post"
    /\ post_data' = extract_post_data(post_links[i], content)
    /\ targets_log' = Append(targets_log,
           [ url |-> post_links[i], fetched |-> content # None,
             title |-> IF post_data' = None THEN "" ELSE post_data'.title ])
    /\ IF Admit(post_data')
       THEN /\ fetch_log' = Append(fetch_log,
                   [site |-> "comments", url |-> CommentsUrl(post_links[i])])
            /\ BeginFetch(CommentsUrl(post_links[i]), "comments")
            /\ UNCHANGED i
       ELSE NextTarget(post_links, i)
    /\ UNCHANGED << all_posts_data, runs, max_posts, discovered, post_links,
                    base_len, arg, ret >>

\* get_page_content(comments_url) returned: the rest of extract_comments, the
\* append to all_posts_data and the end of the iteration
AfterComments ==
    /\ pc = "got" /\ caller = "comments"
    /\ post_data' = [post_data EXCEPT !.comments = extract_comments(content)]
    /\ all_posts_data' = Append(all_posts_data, post_data')
    /\ NextTarget(post_links, i)
    /\ UNCHANGED << runs, max_posts, discovered, post_links, targets_log,
                    base_len, arg, ret >>

\* HabrParser.__init__, before any call
RunIdle ==
    /\ all_posts_data = << >>
    /\ pc = "idle"
    /\ runs = 0
    /\ max_posts = None
    /\ discovered = << >>
    /\ post_links = << >>
    /\ i = 0
    /\ post_data = None
    /\ url = search_url
    /\ attempt = 0
    /\ slept = << >>
    /\ outcomes = << >>
    /\ content = Pending
    /\ caller = "none"
    /\ fetch_log = << >>
    /\ targets_log = << >>
    /\ base_len = 0

Init == RunIdle /\ arg = None /\ ret = Pending

Next ==
    \/ ParseSearchPage
    \/ GetOk
    \/ GetFail
    \/ Sleep
    \/ AfterListing
    \/ AfterPost
    \/ AfterComments

Spec == Init /\ [][Next]_vars

---------------------------------------------------------------------------
(* Properties of get_page_content and parse_search_page, under Spec.       *)

InFetch == pc \in {"get", "sleep", "got"}

AllErrors == \A k \in 1..Len(outcomes) : outcomes[k] = "error"

UrlsOf(log) == [k \in 1..Len(log) |-> log[k].url]

\* the targets handed to extract_post_data in this run, in call order
PostFetches == UrlsOf(SelectSeq(fetch_log, LAMBDA e : e.site = "post"))

\* the records this run appended to all_posts_data
Appended == SubSeq(all_posts_data, base_len + 1, Len(all_posts_data))

\* the processed targets whose fetch succeeded and whose title is non-empty
AdmittedTargets == SelectSeq(targets_log, LAMBDA e : e.fetched /\ e.title # "")

IsPrefix(s, t) == Len(s) <= Len(t) /\ s = SubSeq(t, 1, Len(s))

\* C1: while every session.get of a get_page_content call has raised, the
\* call has made at most 3 attempts, has slept 1 after the first failure and
\* 2 after the second and nothing after the third, and after the third it
\* has returned None without raising.
C1_RetryBound ==
    (InFetch /\ AllErrors) =>
        /\ Len(outcomes) <= 3
        /\ IsPrefix(slept, << 1, 2 >>)
        /\ (pc = "get" => Len(outcomes) <= 2 /\ Len(slept) = Len(outcomes))
        /\ (pc = "sleep" => Len(outcomes) \in 1..2 /\ Len(slept) = Len(outcomes) - 1)
        /\ (pc = "got" => Len(outcomes) = 3 /\ slept = << 1, 2 >> /\ content = None)

C1_Witness ==
    /\ pc = "got"
    /\ outcomes = << "error", "error", "error" >>
    /\ slept = << 1, 2 >>
    /\ content = None

\* C2: in one parse_search_page run the targets are handed to
\* extract_post_data one by one in discovery order, none twice, whatever the
\* outcome of the earlier ones; when the run returns every target has been
\* processed and the records the run appended are exactly those of the
\* targets whose fetch succeeded and whose title is non-empty, in order.
C2_EveryTargetOnceInOrder ==
    /\ NoDup(post_links)
    /\ IsPrefix(PostFetches, post_links)
    /\ IsPrefix(UrlsOf(targets_log), post_links)
    /\ IsPrefix(UrlsOf(Appended), UrlsOf(AdmittedTargets))
    /\ pc = "done" =>
          /\ PostFetches = post_links
          /\ UrlsOf(targets_log) = post_links
          /\ UrlsOf(Appended) = UrlsOf(AdmittedTargets)

\* three targets, the first fetched but without a title, the second with failed
\* fetches of the post page, the third admitted after its comments fetch failed
C2_Witness ==
    /\ pc = "done"
    /\ Len(post_links) = 3
    /\ targets_log[1].fetched /\ targets_log[1].title = ""
    /\ ~targets_log[2].fetched
    /\ caller = "comments" /\ content = None
    /\ UrlsOf(Appended) = << post_links[3] >>

\* three discovered targets of which one lacks a title: two admitted records
C2_WitnessTwoOfThree ==
    /\ pc = "done"
    /\ Len(post_links) = 3
    /\ Cardinality({ k \in 1..3 : targets_log[k].title = "" }) = 1
    /\ Len(Appended) = 2

\* C3: every record of all_posts_data has a non-empty title or a non-empty
\* content, and no record is appended for a target whose fetch failed or
\* whose extracted title is empty.
C3_AdmissionInvariant ==
    /\ \A k \in 1..Len(all_posts_data) :
          all_posts_data[k].title # "" \/ all_posts_data[k].content # ""
    /\ \A e \in Range(targets_log) :
          (~e.fetched \/ e.title = "") => ~Contains(UrlsOf(Appended), e.url)

\* a second run ended with records of both runs and a rejected untitled target
C3_Witness ==
    /\ runs = 2 /\ pc = "done"
    /\ base_len >= 1 /\ Len(Appended) >= 1
    /\ \E e \in Range(targets_log) : e.fetched /\ e.title = ""
    /\ \E e \in Range(targets_log) : ~e.fetched

\* whether parse_search_page is past the statement that applies the limit
PastLimit == pc = "done" \/ (InFetch /\ caller \in {"post", "comments"})

\* C6: whenever max_posts is given, for every integer value of it including
\* 0, the targets processed are the first max_posts discovered targets.
C6_LimitAlwaysTruncates ==
    (PastLimit /\ max_posts # None) =>
        post_links = SubSeq(discovered, 1, Min(max_posts.int, Len(discovered)))

---------------------------------------------------------------------------
(* The functions applied on their own: arg is drawn by the initial state   *)
(* and one action applies the function to it.                              *)

\* <a> elements of the listing pages given to extract_search_results
DiscoverHrefs ==
    { Href("", "articles", 1), Href("", "articles", 2), Href("", "posts", 1),
      Href(base_url, "articles", 1), Href("", "users", 1), None }

DiscoverElements == [cls : {"h2", "h1", "plain"}, href : DiscoverHrefs]

DiscoverPages ==
    { Listing(l) : l \in SeqsUpTo(DiscoverElements, MaxLinks) } \cup {None, EmptyText}

InitDiscover == RunIdle /\ arg \in DiscoverPages /\ ret = Pending

CallExtractSearchResults ==
    /\ ret = Pending
    /\ ret' = Returned(extract_search_results(arg))
    /\ UNCHANGED << runVars, arg >>

NextDiscover == CallExtractSearchResults

SpecDiscover == InitDiscover /\ [][NextDiscover]_vars

\* glyphs of the texts given to parse_number_with_suffix
NumberGlyphs ==
    { "0", "1", "2", "5", ".", ",", "a", "-",
      "K", "k", "K_cyr", "k_cyr", "M", "m", "M_cyr", "m_cyr" }

NumberTexts == SeqsUpTo(NumberGlyphs, MaxTextLen)

InitNumber == RunIdle /\ arg \in NumberTexts /\ ret = Pending

CallParseNumberWithSuffix ==
    /\ ret = Pending
    /\ ret' = Returned(parse_number_with_suffix(arg))
    /\ UNCHANGED << runVars, arg >>

NextNumber == CallParseNumberWithSuffix

SpecNumber == InitNumber /\ [][NextNumber]_vars

\* comment nodes of the comments pages given to extract_comments
CommentNodes ==
    { Node(a, c, r) : a \in { << >>, << "reader" >> },
                      c \in { << >>, << "c1" >>, << "c2" >> },
                      r \in { << >>, << <<"7">> >>, << <<"-", "7">> >>,
                              << <<"+", "7">> >> } }
      \cup {FailingNode}

CommentPages ==
    { CommentsPage(n) : n \in SeqsUpTo(CommentNodes, MaxNodes) } \cup {None, EmptyText}

InitComments == RunIdle /\ arg \in CommentPages /\ ret = Pending

CallExtractComments ==
    /\ ret = Pending
    /\ ret' = Returned(extract_comments(arg))
    /\ UNCHANGED << runVars, arg >>

NextComments == CallExtractComments

SpecComments == InitComments /\ [][NextComments]_vars

\* post pages given to extract_post_data: per field, no element or one, and
\* the field, if any, whose extraction raises
PostPages ==
    [ kind : {"post"},
      title : { << >>, << "Title" >> },
      author : { << >>, << [text |-> "ann", href |-> Href("", "users", 1)] >> },
      karma : { << >>, << "12" >> },
      body : { << >>, << Body >> },
      views : { << >>, << <<"1", ".", "5", "K">> >> },
      rating : { << >>, << <<"+", "7">> >> },
      comments : { << >>, << <<"1", "2">> >> },
      time : { << >>, << [datetime |-> "2025-10-23T10:00:00Z", text |-> "yesterday"] >> },
      tags : { << >>, << "t1", "t1", "t2" >> },
      hubs : { << >>, << "h1" >> },
      reading_time : { << >>, << "5 min" >> },
      difficulty : { << >>, << "easy" >> },
      company : { << >>, << "acme" >> },
      raises : {""} \cup Range(FieldOrder) ]

post_url == Href(base_url, "articles", 1)

InitPost == RunIdle /\ arg \in PostPages \cup {None, EmptyText} /\ ret = Pending

CallExtractPostData ==
    /\ ret = Pending
    /\ ret' = Returned(extract_post_data(post_url, arg))
    /\ UNCHANGED << runVars, arg >>

NextPost == CallExtractPostData

SpecPost == InitPost /\ [][NextPost]_vars

---------------------------------------------------------------------------
(* Properties of extract_search_results, under SpecDiscover.               *)

Called == ret # Pending

\* the <a> elements of the page given to extract_search_results
DocLinks == IF Falsy(arg) THEN << >> ELSE arg.links

\* the absolute form of the href of the k-th <a> element of the document
DocUrl(k) == urljoin(base_url, DocLinks[k].href)

\* whether the priority-th selector picks up url from the k-th <a> element
PicksAt(priority, k, link) ==
    /\ Selects(selectors[priority], DocLinks[k])
    /\ DocLinks[k].href # None
    /\ DocUrl(k) = link

PickedUp(link) ==
    \E p \in 1..Len(selectors), k \in 1..Len(DocLinks) : PicksAt(p, k, link)

\* the links in the order in which the selectors, applied one after the
\* other, see them: p * (Len + 1) + k orders by selector p, then by place k
\* in the document
SeenAt(link) ==
    { pk[1] * (Len(DocLinks) + 1) + pk[2] :
          pk \in { qj \in (1..Len(selectors)) \X (1..Len(DocLinks)) :
                       PicksAt(qj[1], qj[2], link) } }

Least(S) == CHOOSE x \in S : \A y \in S : x <= y

FirstSeen(link) == Least(SeenAt(link))

\* the place of the first <a> element of the document with this link
DocPlace(link) ==
    Least({ k \in 1..Len(DocLinks) : DocLinks[k].href # None /\ DocUrl(k) = link })

MatchesAllowPattern(link) == link.seg \in {"articles", "posts"}

\* C4: extract_search_results returns no link twice and only links that
\* contain '/articles/' or '/posts/'; a link that several selectors produce
\* stands once, at the place of its first sight when the selectors are
\* applied in the order of their list.
C4_UniqueAllowedFirstSeen ==
    Called =>
        LET out == ret.value IN
        /\ NoDup(out)
        /\ \A k \in 1..Len(out) : MatchesAllowPattern(out[k]) /\ PickedUp(out[k])
        /\ \A a, b \in 1..Len(out) :
              a < b => FirstSeen(out[a]) < FirstSeen(out[b])

\* a link picked up by two selectors, from two elements, returned once and
\* ahead of a link that stands before it in the document
C4_Witness ==
    /\ Called
    /\ Len(ret.value) >= 2
    /\ \E p, q \in 1..Len(selectors), j, k \in 1..Len(DocLinks) :
          /\ p # q /\ j # k
          /\ PicksAt(p, j, ret.value[1])
          /\ PicksAt(q, k, ret.value[1])
          /\ DocPlace(ret.value[2]) < DocPlace(ret.value[1])

\* the links of the document that match the allow-pattern
DocMatching ==
    { DocUrl(k) : k \in { j \in 1..Len(DocLinks) :
          DocLinks[j].href # None /\ MatchesAllowPattern(DocUrl(j)) } }

\* C5 as stated: the output lists the distinct matching links of the listing
\* in document order and omits the others, also when different selectors
\* pick them up.
C5_DocumentOrder ==
    Called =>
        LET out == ret.value IN
        /\ Range(out) = DocMatching
        /\ \A a, b \in 1..Len(out) : a < b => DocPlace(out[a]) < DocPlace(out[b])

\* the place in the selector list of the first selector that picks up link
FirstSelector(link) ==
    Least({ p \in 1..Len(selectors) :
              \E k \in 1..Len(DocLinks) : PicksAt(p, k, link) })

\* the place in the document of the first element from which that selector
\* picks it up
PlaceBySelector(link) ==
    Least({ k \in 1..Len(DocLinks) : PicksAt(FirstSelector(link), k, link) })

\* C5 amended: the output lists the distinct matching links that a selector
\* picks up and omits the others, ordered by the first selector of the list
\* that picks a link up and, among the links first picked up by the same
\* selector, by the document order of the elements that selector selects.
C5_SelectorThenDocumentOrder ==
    Called =>
        LET out == ret.value IN
        /\ Range(out) = { u \in DocMatching : PickedUp(u) }
        /\ NoDup(out)
        /\ \A a, b \in 1..Len(out) : a < b =>
              \/ FirstSelector(out[a]) < FirstSelector(out[b])
              \/ /\ FirstSelector(out[a]) = FirstSelector(out[b])
                 /\ PlaceBySelector(out[a]) < PlaceBySelector(out[b])

\* two matching links and a non-matching one: the output has the two, the
\* second of the document first, because an earlier selector picks it up
C5_Witness ==
    /\ Called
    /\ Len(DocLinks) = 3
    /\ \E k \in 1..3 : DocLinks[k].href # None /\ ~MatchesAllowPattern(DocUrl(k))
    /\ Len(ret.value) = 2
    /\ DocPlace(ret.value[2]) < DocPlace(ret.value[1])
    /\ FirstSelector(ret.value[1]) < FirstSelector(ret.value[2])

---------------------------------------------------------------------------
(* Properties of parse_number_with_suffix, under SpecNumber.               *)

ThousandGlyphs == {"K", "k", "K_cyr", "k_cyr"}

MillionGlyphs == {"M", "m", "M_cyr", "m_cyr"}

AllDigits(s) == s # << >> /\ \A k \in 1..Len(s) : s[k] \in Digits

\* digits, optional fractional part, optional one-letter suffix: the ways to
\* read text as integer part, fraction and suffix
Readings(text) ==
    { r \in [ int : { SubSeq(text, 1, k) : k \in 1..Len(text) },
              frac : { << >> } \cup
                     { SubSeq(text, j, k) : j, k \in 1..Len(text) },
              suffix : {""} \cup ThousandGlyphs \cup MillionGlyphs ] :
        /\ AllDigits(r.int)
        /\ r.frac # << >> => AllDigits(r.frac)
        /\ text = r.int \o (IF r.frac = << >> THEN << >> ELSE << "." >> \o r.frac)
                        \o (IF r.suffix = "" THEN << >> ELSE << r.suffix >>) }

\* the mantissa times the magnitude of the suffix, truncated to an integer
ClaimedValue(r) ==
    LET mult == IF r.suffix \in ThousandGlyphs THEN 1000
                ELSE IF r.suffix \in MillionGlyphs THEN 1000000 ELSE 1
    IN (DigitsValue(r.int \o r.frac) * mult) \div Pow(10, Len(r.frac))

\* C7: for digits, optional fraction and optional suffix the result is the
\* mantissa times 1,000 for each of the four thousand glyphs and times
\* 1,000,000 for each of the four million glyphs, truncated; the truncated
\* mantissa without suffix; 0 for the empty text and for text without digits.
C7_EveryGlyphForm ==
    Called =>
        /\ \A r \in Readings(arg) : ret.value = ClaimedValue(r)
        /\ FirstDigit(arg, 1) = 0 => ret.value = 0

---------------------------------------------------------------------------
(* Properties of extract_comments, under SpecComments.                     *)

Nodes == IF Falsy(arg) THEN << >> ELSE arg.nodes

\* the integer a rating text of an optional sign and digits denotes
SignedValue(text) ==
    IF Head(text) = "-" THEN 0 - DigitsValue(Tail(text))
    ELSE IF Head(text) = "+" THEN DigitsValue(Tail(text))
    ELSE DigitsValue(text)

IsSignedNumber(text) ==
    /\ text # << >>
    /\ IF Head(text) \in {"-", "+"} THEN AllDigits(Tail(text)) ELSE AllDigits(text)

NodeAdmitted(node) ==
    ~node.fails /\ (node.author \notin {<< >>, << "" >>} \/ node.content \notin {<< >>, << "" >>})

\* the nodes that pass the admission filter, in document order
AdmittedNodes(nodes) == SelectSeq(nodes, NodeAdmitted)

NoneFails == \A k \in 1..Len(Nodes) : ~Nodes[k].fails

\* C8: the rating of a comment keeps the sign of its rating text: a minus
\* sign and the digits of n give -n, a plus sign or no sign give n.
C8_RatingKeepsSign ==
    (Called /\ NoneFails) =>
        LET adm == AdmittedNodes(Nodes) IN
        /\ Len(ret.value) = Len(adm)
        /\ \A k \in 1..Len(adm) :
              (adm[k].rating # << >> /\ IsSignedNumber(Head(adm[k].rating)))
                  => ret.value[k].rating = SignedValue(Head(adm[k].rating))

\* the place of the first node whose scan fails, Len + 1 when none does
FirstFailure(nodes) ==
    Least({ k \in 1..Len(nodes) : nodes[k].fails } \cup {Len(nodes) + 1})

Texts(comments) ==
    [k \in 1..Len(comments) |-> << comments[k].author, comments[k].content >>]

NodeTexts(nodes) ==
    [k \in 1..Len(nodes) |->
        << IF nodes[k].author = << >> THEN "" ELSE Head(nodes[k].author),
           IF nodes[k].content = << >> THEN "" ELSE Head(nodes[k].content) >>]

\* C10 as stated: a failure while scanning one node omits only that node;
\* the admitted nodes before and after it are returned in document order.
C10_OnlyFailingNodeOmitted ==
    Called => Texts(ret.value) = NodeTexts(AdmittedNodes(Nodes))

\* C10 amended: a failure while scanning one node ends the scan; the
\* admitted nodes before it are returned in document order, the failing node
\* and every node after it are omitted.
C10_FailureEndsScan ==
    Called =>
        Texts(ret.value) =
            NodeTexts(AdmittedNodes(SubSeq(Nodes, 1, FirstFailure(Nodes) - 1)))

\* an admitted node, a failing node, an admitted node: one comment returned
C10_Witness ==
    /\ Called
    /\ Len(Nodes) = 3
    /\ NodeAdmitted(Nodes[1]) /\ Nodes[2].fails /\ NodeAdmitted(Nodes[3])
    /\ Len(ret.value) = 1

---------------------------------------------------------------------------
(* Properties of extract_post_data, under SpecPost.                        *)

IsPostPage == ~Falsy(arg)

\* what the page yields when no extraction raises
WithoutError == extract_post_data(post_url, [arg EXCEPT !.raises = ""])

\* the place of field f in the extraction order
Place(f) == CHOOSE k \in 1..Len(FieldOrder) : FieldOrder[k] = f

Raising == IsPostPage /\ arg.raises # ""

\* C9 as stated: an error raised while extracting one field leaves that
\* field at its default, every later field is extracted as without the
\* error, and the record is returned.
C9_ErrorConfinedToField ==
    (Called /\ Raising) =>
        /\ ret.value # None
        /\ FieldValue(ret.value, arg.raises)
              = FieldValue(DefaultPostData(post_url), arg.raises)
        /\ \A k \in 1..Len(FieldOrder) : k > Place(arg.raises) =>
              FieldValue(ret.value, FieldOrder[k])
                  = FieldValue(WithoutError, FieldOrder[k])

\* C9 amended: an error raised while extracting one field ends the
\* extraction; the fields before it keep the values extracted, that field
\* and every later field are left at their defaults, and the record is
\* returned.
C9_ErrorEndsExtraction ==
    (Called /\ Raising) =>
        /\ ret.value # None
        /\ ret.value.url = post_url
        /\ \A k \in 1..Len(FieldOrder) :
              FieldValue(ret.value, FieldOrder[k]) =
                  IF k < Place(arg.raises)
                  THEN FieldValue(WithoutError, FieldOrder[k])
                  ELSE FieldValue(DefaultPostData(post_url), FieldOrder[k])

\* the views extraction raises on a page with a title and a company: the
\* title is extracted, the company is not
C9_Witness ==
    /\ Called /\ Raising
    /\ arg.raises = "views_count"
    /\ arg.title # << >> /\ arg.company # << >>
    /\ ret.value.title = "Title"
    /\ ret.value.company = ""

---------------------------------------------------------------------------
(* get_channel_data (src/tg_parser/main.py): the posts of a list of        *)
(* channels.  The client is a script: per entry of channel_list, whether   *)
(* get_entity raises and else the entity's username and title and what     *)
(* iter_messages yields.  A dict is a function on its keys.                *)

\* channels of channel_list
MaxChannels == 2

\* messages that iter_messages yields for one channel (the code asks for 50)
MaxMessages == 2

EmptyDict == << >>

\* the replies that iter_messages(entity, reply_to=message.id) yields before
\* it raises: all of them when raises_at = 0, else those before that place
RepliesSeen(replies) ==
    IF replies.raises_at = 0 THEN replies.items
    ELSE SubSeq(replies.items, 1, Min(replies.raises_at - 1, Len(replies.items)))

\* the inner try block: the comments of the replies with text; an error of
\* the iteration is passed over and leaves the comments collected so far
RECURSIVE CollectComments(_, _)
CollectComments(comments, seen) ==
    IF seen = << >> THEN comments
    ELSE IF Head(seen).text # ""
    THEN CollectComments(Append(comments, Head(seen)), Tail(seen))
    ELSE CollectComments(comments, Tail(seen))

\* the reactions block: None when message.reactions has neither results nor
\* count (the attribute access raises), else the count
ReactionsCount(reactions) ==
    CASE reactions.kind = "none" -> Returned(0)
      [] reactions.kind = "MessageReactions" ->
           Returned(reactions.counts[1] + reactions.counts[2])
      [] reactions.kind = "count" -> Returned(reactions.count)
      [] reactions.kind = "other" -> None

\* the post_data of one message with text whose reactions block did not raise
PostData(message) ==
    LET comments == CollectComments(<< >>, RepliesSeen(message.replies)) IN
    [ id |-> message.id, text |-> message.text, date |-> message.date,
      reactions_count |-> ReactionsCount(message.reactions).value,
      comments_count |-> Len(comments), comments |-> comments ]

\* ProcessMessages returning the posts collected so far when a message raises
RECURSIVE ProcessMessages_keep_partial(_, _)
ProcessMessages_keep_partial(posts, messages) ==
    IF messages = << >> THEN Returned(posts)
    ELSE IF Head(messages).text = ""
    THEN ProcessMessages_keep_partial(posts, Tail(messages))
    ELSE IF ReactionsCount(Head(messages).reactions) = None THEN Returned(posts)
    ELSE ProcessMessages_keep_partial(Append(posts, PostData(Head(messages))),
                                      Tail(messages))

\* the loop over the messages of one channel: None when the processing of a
\* message raises, else the posts of the messages with text
RECURSIVE ProcessMessages(_, _)
ProcessMessages(posts, messages) ==
    IF messages = << >> THEN Returned(posts)
    ELSE IF Head(messages).text = "" THEN ProcessMessages(posts, Tail(messages))
    ELSE IF ReactionsCount(Head(messages).reactions) = None THEN None
    ELSE ProcessMessages(Append(posts, PostData(Head(messages))), Tail(messages))

\* client.iter_messages(entity, limit=50): the message objects of a channel
iter_messages(channel) ==
    [ k \in 1..Len(channel.messages) |->
        [ id |-> k, date |-> "2025-10-23T10:00:00",
          text |-> channel.messages[k].text,
          reactions |-> channel.messages[k].reactions,
          replies |-> channel.messages[k].replies ] ]

\* the channel_data of a channel once its posts are collected
ChannelData(channel, posts) ==
    [ channel_title |-> channel.title, channel_username |-> channel.username,
      subscribers_count |-> None, posts |-> posts ]

\* the loop over channel_list: the outer handler passes over a channel whose
\* get_entity or whose message processing raises
RECURSIVE ProcessChannels(_, _)
ProcessChannels(results, channels) ==
    IF channels = << >> THEN results
    ELSE
      LET channel == Head(channels)
          posts == IF channel.resolves
                   THEN ProcessMessages(<< >>, iter_messages(channel))
                   ELSE None
      IN ProcessChannels(
             IF posts = None THEN results
             ELSE (channel.username :> ChannelData(channel, posts.value)) @@ results,
             Tail(channels))

get_channel_data(channel_list) == ProcessChannels(EmptyDict, channel_list)

Reply(id, text) == [id |-> id, text |-> text, date |-> "2025-10-23T11:00:00"]

\* the messages of the scripts: one without text, one with reactions and
\* replies, one whose reply iteration raises at the second reply, one whose
\* reactions block raises
MessageScripts ==
    { [ text |-> "", reactions |-> [kind |-> "none"],
        replies |-> [items |-> << >>, raises_at |-> 0] ],
      [ text |-> "post", reactions |-> [kind |-> "MessageReactions", counts |-> << 1, 2 >>],
        replies |-> [items |-> << Reply(1, "r1"), Reply(2, ""), Reply(3, "r3") >>,
                     raises_at |-> 0] ],
      [ text |-> "post", reactions |-> [kind |-> "count", count |-> 3],
        replies |-> [items |-> << Reply(1, "r1"), Reply(2, "r2") >>,
                     raises_at |-> 2] ],
      [ text |-> "post", reactions |-> [kind |-> "other"],
        replies |-> [items |-> << >>, raises_at |-> 0] ] }

\* what the client answers for one entry of channel_list: get_entity raises,
\* or the channel's messages
ChannelScripts ==
    [ resolves : {TRUE}, messages : SeqsUpTo(MessageScripts, MaxMessages) ]
      \cup { [ resolves |-> FALSE, messages |-> << >> ] }

Usernames == << "careerlaboratory", "bezaspera", "hellonewjob", "channel" >>

\* the entries of channel_list with what the client answers for each: the
\* entries name different channels, or all of them name the same channel
channel_list(input) ==
    [ k \in 1..Len(input.scripts) |->
        [ resolves |-> input.scripts[k].resolves,
          username |-> IF input.same_channel THEN Usernames[1] ELSE Usernames[k],
          title |-> "Channel",
          messages |-> input.scripts[k].messages ] ]

InitChannels ==
    /\ RunIdle
    /\ arg \in [ scripts : SeqsUpTo(ChannelScripts, MaxChannels),
                 same_channel : BOOLEAN ]
    /\ ret = Pending

CallGetChannelData ==
    /\ ret = Pending
    /\ ret' = Returned(get_channel_data(channel_list(arg)))
    /\ UNCHANGED << runVars, arg >>

NextChannels == CallGetChannelData

SpecChannels == InitChannels /\ [][NextChannels]_vars

\* the processing of a message raises: it has text and its reactions have
\* neither results nor count
MessageRaises(m) == m.text # "" /\ m.reactions.kind = "other"

\* the pass over a channel ends without error
Completes(channel) ==
    /\ channel.resolves
    /\ \A k \in 1..Len(channel.messages) : ~MessageRaises(channel.messages[k])

\* the entries of the list given to get_channel_data
Channels == channel_list(arg)

\* the last entry of the list whose pass ends without error under a username
LastCompletedAs(username) ==
    CHOOSE k \in 1..Len(Channels) :
        /\ Completes(Channels[k]) /\ Channels[k].username = username
        /\ \A l \in (k + 1)..Len(Channels) :
              ~(Completes(Channels[l]) /\ Channels[l].username = username)

\* the replies seen before the iteration raises, by place
SeenReplies(replies) ==
    { k \in 1..Len(replies.items) : replies.raises_at = 0 \/ k < replies.raises_at }

\* the comments are the seen replies with text, in order
CommentsOf(post, replies) ==
    /\ \A k \in 1..Len(post.comments) : \A l \in 1..Len(post.comments) :
          k < l => post.comments[k].id < post.comments[l].id
    /\ { post.comments[k] : k \in 1..Len(post.comments) }
          = { replies.items[k] : k \in { l \in SeenReplies(replies) :
                                            replies.items[l].text # "" } }

\* the posts are those of the messages with text, in order, each with the
\* comments seen
PostsOf(posts, channel) ==
    /\ \A k \in 1..Len(posts) : \A l \in 1..Len(posts) :
          k < l => posts[k].id < posts[l].id
    /\ { posts[k].id : k \in 1..Len(posts) }
          = { k \in 1..Len(channel.messages) : channel.messages[k].text # "" }
    /\ \A k \in 1..Len(posts) :
          /\ posts[k].text = channel.messages[posts[k].id].text
          /\ CommentsOf(posts[k], channel.messages[posts[k].id].replies)
          /\ posts[k].comments_count = Len(posts[k].comments)

\* C11: the results hold an entry exactly for the channels whose get_entity
\* and whose every message were processed without error (a channel whose
\* pass raises leaves nothing of its posts, and the channels after it are
\* still processed); an entry holds the posts of the last such pass, and a
\* post whose reply iteration raised is kept with the replies collected
\* before the error and comments_count equal to the length of its comments.
C11_ChannelWrittenOnlyWhenComplete ==
    Called =>
        /\ DOMAIN ret.value
              = { Channels[k].username :
                      k \in { l \in 1..Len(Channels) : Completes(Channels[l]) } }
        /\ \A u \in DOMAIN ret.value :
              /\ ret.value[u].channel_username = u
              /\ PostsOf(ret.value[u].posts, Channels[LastCompletedAs(u)])

\* the first channel raises at its second message after a post was
\* collected and is absent; the second channel is processed, and its post
\* keeps the one reply collected before its reply iteration raised
C11_Witness ==
    /\ Called
    /\ Len(Channels) = 2
    /\ ~arg.same_channel
    /\ Channels[1].resolves /\ Len(Channels[1].messages) = 2
    /\ ~MessageRaises(Channels[1].messages[1]) /\ Channels[1].messages[1].text # ""
    /\ MessageRaises(Channels[1].messages[2])
    /\ Channels[2].resolves /\ Len(Channels[2].messages) = 1
    /\ Channels[2].messages[1].text # ""
    /\ Channels[2].messages[1].replies.raises_at = 2
    /\ DOMAIN ret.value = {Usernames[2]}
    /\ Len(ret.value[Usernames[2]].posts) = 1
    /\ ret.value[Usernames[2]].posts[1].comments_count = 1
    /\ ret.value[Usernames[2]].posts[1].comments = << Reply(1, "r1") >>
    /\ ret.value[Usernames[2]].posts[1].reactions_count = 3

=============================================================================
